---- MODULE Spec2Model ----
(***************************************************************************)
(* Model of codex_feishu.go: a one-shot notifier that parses one JSON      *)
(* argument, builds a Feishu card, optionally signs it and POSTs it once.  *)
(*                                                                         *)
(* Strings are sequences of code points; a code point is written as a      *)
(* one-character TLA+ string, or by name ("LF", "TAB", "DEL", "U+4EFB";   *)
(* "BQ" is the backquote).                                                 *)
(***************************************************************************)
EXTENDS Integers, Sequences, FiniteSets, TLC

VARIABLES
    pc,            \* position of main: "args", "config", "parse", "type", "sign",
                   \* "card", "request", "do", "response", "exit";
                   \* "idle" when main is not run
    argc,          \* len(os.Args)
    argJson,       \* os.Args[1], as the JSON text's structure
    envWebhook,    \* os.Getenv("FEISHU_WEBHOOK_URL")
    envSecret,     \* os.Getenv("FEISHU_SECRET")
    clock,         \* the wall clock, Unix seconds
    cfg,           \* FeishuConfig returned by loadConfig
    notification,  \* CodexNotification filled by json.Unmarshal
    ts,            \* the local ts of sendFeishuCard (-1 before it is read)
    timestampStr,  \* the local timestampStr of sendFeishuCard
    sign,          \* the local sign of sendFeishuCard
    payload,       \* json.Marshal(cardMsg): the request body
    posts,         \* number of client.Do calls made
    resp,          \* what client.Do / io.ReadAll produced
    err,           \* the diagnostic printed before os.Exit(1)
    exitCode,      \* the process exit status (-1 while running)
    log,           \* the checks main has run so far, in order
    tr_s,          \* truncateRunes harness: argument s
    tr_limit,      \* truncateRunes harness: argument limit
    tr_out,        \* truncateRunes harness: result
    tr_done        \* truncateRunes harness: whether the call has returned

mainVars == <<pc, argc, argJson, envWebhook, envSecret, clock, cfg, notification,
              ts, timestampStr, sign, payload, posts, resp, err, exitCode, log>>
truncVars == <<tr_s, tr_limit, tr_out, tr_done>>
vars == <<mainVars, truncVars>>

----------------------------------------------------------------------------
(* Bounds of the model *)

\* longest string handed to truncateRunes by the harness
MaxLen == 6
\* largest limit handed to truncateRunes by the harness
MaxLimit == 5
\* how far below zero the limits handed to truncateRunes by the harness go
NegLimits == 2
\* how many seconds the clock may advance during a run
MaxTicks == 1
\* the clock at process start
Epoch == 1699999999

----------------------------------------------------------------------------
(* Strings *)

EmptyStr == <<>>

Rep(c, n) == [i \in 1..n |-> c]

Ellipsis == <<".", ".", ".">>

\* unicode.IsSpace, on the code points the model uses
IsSpace(c) == c \in {" ", "TAB", "LF"}

RECURSIVE TrimLeft(_)
TrimLeft(s) ==
    IF Len(s) > 0 /\ IsSpace(s[1]) THEN TrimLeft(Tail(s)) ELSE s

RECURSIVE TrimRight(_)
TrimRight(s) ==
    IF Len(s) > 0 /\ IsSpace(s[Len(s)]) THEN TrimRight(SubSeq(s, 1, Len(s) - 1)) ELSE s

\* strings.TrimSpace
TrimSpace(s) == TrimRight(TrimLeft(s))

RECURSIVE Join(_, _)
\* strings.Join
Join(elems, sep) ==
    IF Len(elems) = 0 THEN EmptyStr
    ELSE IF Len(elems) = 1 THEN elems[1]
    ELSE elems[1] \o sep \o Join(Tail(elems), sep)

Digit(d) == <<"0", "1", "2", "3", "4", "5", "6", "7", "8", "9">>[d + 1]

RECURSIVE FormatNat(_)
FormatNat(n) ==
    IF n < 10 THEN <<Digit(n)>> ELSE FormatNat(n \div 10) \o <<Digit(n % 10)>>

\* strconv.FormatInt(n, 10) and fmt.Sprintf("%d", n)
FormatInt(n) == IF n < 0 THEN <<"-">> \o FormatNat(-n) ELSE FormatNat(n)

----------------------------------------------------------------------------
(* truncateRunes *)

truncateRunes_NoRoomForEllipsis(s, limit) ==
    IF limit <= 0 THEN EmptyStr
    ELSE IF Len(s) <= limit THEN s
    ELSE IF limit <= 3 THEN SubSeq(s, 1, limit)
    ELSE SubSeq(s, 1, limit) \o Ellipsis

truncateRunes(s, limit) ==
    IF limit <= 0 THEN EmptyStr
    ELSE IF Len(s) <= limit THEN s
    ELSE IF limit <= 3 THEN SubSeq(s, 1, limit)
    ELSE SubSeq(s, 1, limit - 3) \o Ellipsis

----------------------------------------------------------------------------
(* Fixed texts of the program *)

TurnComplete ==
    <<"a", "g", "e", "n", "t", "-", "t", "u", "r", "n", "-",
      "c", "o", "m", "p", "l", "e", "t", "e">>

UnknownTask == <<"U", "n", "k", "n", "o", "w", "n", " ", "T", "a", "s", "k">>

NoResultText ==
    <<"U+FF08", "U+65E0", "U+6267", "U+884C", "U+7ED3", "U+679C", "U+63CF",
      "U+8FF0", "U+FF09">>

TitlePrefix ==
    <<"U+1F916", " ", "C", "o", "d", "e", "x", " ", "U+4EFB", "U+52A1",
      "U+5B8C", "U+6210", ":", " ">>

InputLabel ==
    <<"*", "*", "U+1F4DD", " ", "U+8F93", "U+5165", "U+6307", "U+4EE4", ":",
      "*", "*", "LF">>

ResultLabel ==
    <<"*", "*", "U+2705", " ", "U+6267", "U+884C", "U+7ED3", "U+679C", ":",
      "*", "*", "LF">>

CwdLabel ==
    <<"*", "*", "U+1F4C2", " ", "U+5DE5", "U+4F5C", "U+8DEF", "U+5F84", ":",
      "*", "*", "LF", "BQ">>

ThreadLabel ==
    <<"*", "*", "U+1F194", " ", "T", "h", "r", "e", "a", "d", " ", "I", "D",
      ":", "*", "*", "LF", "BQ">>

FooterLabel ==
    <<"G", "e", "n", "e", "r", "a", "t", "e", "d", " ", "b", "y", " ",
      "C", "o", "d", "e", "x", " ", "a", "t", " ">>

TitleLimit == 30

ResultLimit == 500

StatusOK == 200

----------------------------------------------------------------------------
(* JSON values, and encoding/json's decoding of them into Go fields *)

JAbsent == [t |-> "absent"]
JNull == [t |-> "null"]
JStr(s) == [t |-> "string", v |-> s]
JNum(n) == [t |-> "number", v |-> n]
JArr(a) == [t |-> "array", v |-> a]

\* a JSON member decoded into a Go string: absent and null leave the zero value
DecodeString(j) ==
    IF j.t \in {"absent", "null"} THEN [ok |-> TRUE, v |-> EmptyStr]
    ELSE IF j.t = "string" THEN [ok |-> TRUE, v |-> j.v]
    ELSE [ok |-> FALSE, v |-> EmptyStr]

\* a JSON member decoded into a Go int
DecodeInt(j) ==
    IF j.t \in {"absent", "null"} THEN [ok |-> TRUE, v |-> 0]
    ELSE IF j.t = "number" THEN [ok |-> TRUE, v |-> j.v]
    ELSE [ok |-> FALSE, v |-> 0]

\* a JSON member decoded into a Go []string
DecodeStrings(j) ==
    IF j.t \in {"absent", "null"} THEN [ok |-> TRUE, v |-> <<>>]
    ELSE IF j.t = "array"
    THEN [ok |-> \A i \in 1..Len(j.v) : DecodeString(j.v[i]).ok,
          v |-> [i \in 1..Len(j.v) |-> DecodeString(j.v[i]).v]]
    ELSE [ok |-> FALSE, v |-> <<>>]

ZeroNotification ==
    [Type |-> EmptyStr, ThreadID |-> EmptyStr, TurnID |-> EmptyStr, Cwd |-> EmptyStr,
     InputMessages |-> <<>>, LastAssistantMessage |-> EmptyStr]

\* json.Unmarshal([]byte(jsonStr), &notification)
UnmarshalNotification(j) ==
    IF j.kind = "null" THEN [ok |-> TRUE, v |-> ZeroNotification]
    ELSE IF j.kind # "object" THEN [ok |-> FALSE, v |-> ZeroNotification]
    ELSE [ok |-> /\ DecodeString(j.type).ok
                 /\ DecodeString(j.thread).ok
                 /\ DecodeString(j.turn).ok
                 /\ DecodeString(j.cwd).ok
                 /\ DecodeStrings(j.msgs).ok
                 /\ DecodeString(j.last).ok,
          v |-> [Type |-> DecodeString(j.type).v,
                 ThreadID |-> DecodeString(j.thread).v,
                 TurnID |-> DecodeString(j.turn).v,
                 Cwd |-> DecodeString(j.cwd).v,
                 InputMessages |-> DecodeStrings(j.msgs).v,
                 LastAssistantMessage |-> DecodeString(j.last).v]]

ZeroResponse == [Code |-> 0, Msg |-> EmptyStr, StatusCode |-> 0, StatusMessage |-> EmptyStr]

\* json.Unmarshal(bodyBytes, &feishuResp)
UnmarshalResponse(b) ==
    IF b.kind = "null" THEN [ok |-> TRUE, v |-> ZeroResponse]
    ELSE IF b.kind # "object" THEN [ok |-> FALSE, v |-> ZeroResponse]
    ELSE [ok |-> /\ DecodeInt(b.code).ok
                 /\ DecodeString(b.msg).ok
                 /\ DecodeInt(b.StatusCode).ok
                 /\ DecodeString(b.StatusMessage).ok,
          v |-> [Code |-> DecodeInt(b.code).v,
                 Msg |-> DecodeString(b.msg).v,
                 StatusCode |-> DecodeInt(b.StatusCode).v,
                 StatusMessage |-> DecodeString(b.StatusMessage).v]]

----------------------------------------------------------------------------
(* Environment and configuration *)

EnvUnset == [set |-> FALSE, v |-> EmptyStr]
EnvSet(s) == [set |-> TRUE, v |-> s]

\* os.Getenv: an unset variable reads as the empty string
Getenv(e) == IF e.set THEN e.v ELSE EmptyStr

ZeroConfig == [WebhookURL |-> EmptyStr, Secret |-> EmptyStr]

loadConfig_NoTrim(whEnv, secEnv) ==
    IF Getenv(whEnv) = EmptyStr
    THEN [ok |-> FALSE, cfg |-> ZeroConfig]
    ELSE [ok |-> TRUE,
          cfg |-> [WebhookURL |-> Getenv(whEnv), Secret |-> Getenv(secEnv)]]

loadConfig(whEnv, secEnv) ==
    IF TrimSpace(Getenv(whEnv)) = EmptyStr
    THEN [ok |-> FALSE, cfg |-> ZeroConfig]
    ELSE [ok |-> TRUE,
          cfg |-> [WebhookURL |-> TrimSpace(Getenv(whEnv)),
                   Secret |-> TrimSpace(Getenv(secEnv))]]

----------------------------------------------------------------------------
(* Signing *)

\* HMAC-SHA256 and base64 are modelled as symbolic terms over their inputs:
\* equal terms are equal digests, different terms different digests.
HmacSha256(key, msg) == <<"hmac-sha256[key=">> \o key \o <<";msg=">> \o msg \o <<"]">>

Base64(bytes) == <<"base64[">> \o bytes \o <<"]">>

GenSign_KeyAndMessageSwapped(secret, timestamp) ==
    Base64(HmacSha256(secret, FormatInt(timestamp) \o <<"LF">> \o secret))

\* h.Write on a hash never fails, so the error return of GenSign is always nil
GenSign(secret, timestamp) ==
    Base64(HmacSha256(FormatInt(timestamp) \o <<"LF">> \o secret, EmptyStr))

----------------------------------------------------------------------------
(* sendFeishuCard: the card *)

userIntent(n) ==
    IF Len(n.InputMessages) > 0 THEN n.InputMessages[1] ELSE UnknownTask

displayTitle(n) == truncateRunes(userIntent(n), TitleLimit)

resultContent_TruncatedBeforeTrim(n) ==
    IF TrimSpace(truncateRunes(n.LastAssistantMessage, ResultLimit)) = EmptyStr
    THEN NoResultText
    ELSE TrimSpace(truncateRunes(n.LastAssistantMessage, ResultLimit))

resultContent(n) ==
    truncateRunes(IF TrimSpace(n.LastAssistantMessage) = EmptyStr
                  THEN NoResultText
                  ELSE TrimSpace(n.LastAssistantMessage),
                  ResultLimit)

TwoDigits(k) == <<Digit(k \div 10), Digit(k % 10)>>

\* time.Now().Format("15:04:05"), the local zone being taken as UTC
FormatClock(now) ==
    TwoDigits((now % 86400) \div 3600) \o <<":">> \o
    TwoDigits((now % 3600) \div 60) \o <<":">> \o TwoDigits(now % 60)

MdText(content) == [tag |-> "lark_md", content |-> content]

elements(n, now) ==
    << [tag |-> "div", text |-> MdText(InputLabel \o Join(n.InputMessages, <<"LF">>))],
       [tag |-> "hr"],
       [tag |-> "div", text |-> MdText(ResultLabel \o resultContent(n))],
       [tag |-> "hr"],
       [tag |-> "div",
        fields |-> << [is_short |-> TRUE,
                       text |-> MdText(CwdLabel \o n.Cwd \o <<"BQ">>)],
                      [is_short |-> TRUE,
                       text |-> MdText(ThreadLabel \o n.ThreadID \o <<"BQ">>)] >>],
       [tag |-> "note",
        elements |-> << [tag |-> "plain_text",
                         content |-> FooterLabel \o FormatClock(now)] >>] >>

cardMsg(n, tsStr, sg, now) ==
    [Timestamp |-> tsStr,
     Sign |-> sg,
     MsgType |-> "interactive",
     Card |-> [Config |-> [WideScreenMode |-> TRUE],
               Header |-> [Template |-> "indigo",
                           Title |-> [tag |-> "plain_text",
                                      content |-> TitlePrefix \o displayTitle(n)]],
               Elements |-> elements(n, now)]]

Marshal_TimestampAlwaysWritten(m) ==
    [keys |-> {"msg_type", "card", "timestamp"}
              \cup (IF m.Sign # EmptyStr THEN {"sign"} ELSE {}),
     timestamp |-> m.Timestamp,
     sign |-> m.Sign,
     msg_type |-> m.MsgType,
     card |-> m.Card]

\* json.Marshal(cardMsg): the omitempty members are written only when non-empty
Marshal(m) ==
    [keys |-> {"msg_type", "card"}
              \cup (IF m.Timestamp # EmptyStr THEN {"timestamp"} ELSE {})
              \cup (IF m.Sign # EmptyStr THEN {"sign"} ELSE {}),
     timestamp |-> m.Timestamp,
     sign |-> m.Sign,
     msg_type |-> m.MsgType,
     card |-> m.Card]

NoPayload == [keys |-> {}]

----------------------------------------------------------------------------
(* sendFeishuCard: the request and the response *)

\* net/url rejects a URL that holds an ASCII control character
IsCtl(c) == c \in {"TAB", "LF", "DEL"}

\* http.NewRequest("POST", cfg.WebhookURL, ...) returns an error
NewRequestFails(url) == \E i \in 1..Len(url) : IsCtl(url[i])

NoErr == [stage |-> "none", cause |-> "none"]

NoResp == [kind |-> "none"]

responseError_Any2xxAccepted(r) ==
    IF r.kind = "transportError" THEN [stage |-> "send", cause |-> "transport"]
    ELSE IF ~r.readOk THEN [stage |-> "send", cause |-> "read"]
    ELSE IF r.status \div 100 # 2
    THEN [stage |-> "send", cause |-> "status", status |-> r.status, body |-> r.body]
    ELSE IF ~UnmarshalResponse(r.body).ok
    THEN [stage |-> "send", cause |-> "decode", body |-> r.body]
    ELSE IF UnmarshalResponse(r.body).v.Code # 0
            \/ UnmarshalResponse(r.body).v.StatusCode # 0
    THEN [stage |-> "send", cause |-> "feishu",
          code |-> UnmarshalResponse(r.body).v.Code,
          statusCode |-> UnmarshalResponse(r.body).v.StatusCode,
          msg |-> UnmarshalResponse(r.body).v.Msg,
          statusMessage |-> UnmarshalResponse(r.body).v.StatusMessage]
    ELSE NoErr

\* the error sendFeishuCard returns once client.Do has been called
responseError(r) ==
    IF r.kind = "transportError" THEN [stage |-> "send", cause |-> "transport"]
    ELSE IF ~r.readOk THEN [stage |-> "send", cause |-> "read"]
    ELSE IF r.status # StatusOK
    THEN [stage |-> "send", cause |-> "status", status |-> r.status, body |-> r.body]
    ELSE IF ~UnmarshalResponse(r.body).ok
    THEN [stage |-> "send", cause |-> "decode", body |-> r.body]
    ELSE IF UnmarshalResponse(r.body).v.Code # 0
            \/ UnmarshalResponse(r.body).v.StatusCode # 0
    THEN [stage |-> "send", cause |-> "feishu",
          code |-> UnmarshalResponse(r.body).v.Code,
          statusCode |-> UnmarshalResponse(r.body).v.StatusCode,
          msg |-> UnmarshalResponse(r.body).v.Msg,
          statusMessage |-> UnmarshalResponse(r.body).v.StatusMessage]
    ELSE NoErr

----------------------------------------------------------------------------
(* The inputs of a run *)

GoodURL == <<"h", "t", "t", "p", ":", "/", "/", "h">>

WebhookEnvs ==
    { EnvUnset,
      EnvSet(EmptyStr),
      EnvSet(<<" ", "TAB">>),
      EnvSet(GoodURL),
      EnvSet(<<" ">> \o GoodURL \o <<"LF">>),
      EnvSet(GoodURL \o <<"DEL">>),
      EnvSet(<<"h", "TAB", "h">>) }

SecretEnvs ==
    { EnvUnset,
      EnvSet(EmptyStr),
      EnvSet(<<" ", "TAB">>),
      EnvSet(<<"k">>),
      EnvSet(<<" ", "k", "2", "LF">>) }

DemoTask == <<"d", "e", "m", "o", " ", "t", "a", "s", "k">>

AllDone == <<"a", "l", "l", " ", "d", "o", "n", "e">>

TypeMembers ==
    { JAbsent, JStr(TurnComplete), JStr(TurnComplete \o <<" ">>), JStr(<<"x">>),
      JNum(1) }

MsgsMembers ==
    { JAbsent,
      JArr(<<>>),
      JArr(<<JStr(DemoTask)>>),
      JArr(<<JStr(Rep("a", TitleLimit))>>),
      JArr(<<JStr(Rep("a", TitleLimit + 1)), JStr(<<"x">>)>>),
      JArr(<<JStr(EmptyStr), JStr(<<"x">>)>>),
      JStr(DemoTask) }

LastMembers ==
    { JAbsent,
      JStr(AllDone),
      JStr(<<" ", "TAB", "LF">>),
      JStr(Rep("b", ResultLimit) \o <<" ">>),
      JStr(<<" ">> \o Rep("b", ResultLimit + 1) \o <<"LF">>),
      JStr(<<"LF">> \o Rep(".", ResultLimit + 2)),
      JNum(0) }

\* os.Args[1]: text that is not JSON, JSON that is not an object, or an object;
\* "other" stands for the members the program does not know
ArgJsons ==
    { [kind |-> "malformed"], [kind |-> "null"], [kind |-> "array"] }
    \cup
    { [kind |-> "object", type |-> ty, thread |-> JStr(<<"t", "1">>),
       turn |-> JStr(<<"1">>), cwd |-> JStr(<<"/", "w">>), msgs |-> ms, last |-> la,
       other |-> JNum(7)] :
        ty \in TypeMembers, ms \in MsgsMembers, la \in LastMembers }

NoArg == [kind |-> "none"]

SignMatchFail ==
    <<"s", "i", "g", "n", " ", "m", "a", "t", "c", "h", " ", "f", "a", "i", "l">>

JsonBody(c, m, sc, sm) ==
    [kind |-> "object", code |-> c, msg |-> m, StatusCode |-> sc, StatusMessage |-> sm]

OkBody == JsonBody(JNum(0), JAbsent, JNum(0), JAbsent)

\* response bodies: text that is not JSON, null, or an object
Bodies ==
    { [kind |-> "text"],
      [kind |-> "null"],
      JsonBody(JAbsent, JAbsent, JAbsent, JAbsent),
      OkBody,
      JsonBody(JNum(0), JStr(<<"o", "k">>), JNum(0), JStr(<<"o", "k">>)),
      JsonBody(JNum(19021), JStr(SignMatchFail), JAbsent, JAbsent),
      JsonBody(JNum(0), JAbsent, JNum(1), JStr(<<"e">>)),
      JsonBody(JNum(19021), JStr(SignMatchFail), JNum(1), JStr(<<"e">>)),
      JsonBody(JStr(<<"0">>), JAbsent, JNum(0), JAbsent) }

\* what client.Do and io.ReadAll can produce; a timeout is a transport error
Responses ==
    { [kind |-> "transportError"],
      [kind |-> "response", status |-> StatusOK, readOk |-> FALSE, body |-> OkBody],
      [kind |-> "response", status |-> 201, readOk |-> TRUE, body |-> OkBody],
      [kind |-> "response", status |-> 204, readOk |-> TRUE, body |-> [kind |-> "null"]],
      [kind |-> "response", status |-> 500, readOk |-> TRUE, body |-> [kind |-> "text"]] }
    \cup { [kind |-> "response", status |-> StatusOK, readOk |-> TRUE, body |-> b] :
             b \in Bodies }

----------------------------------------------------------------------------
(* main *)

TruncIdle ==
    /\ tr_s = EmptyStr
    /\ tr_limit = 0
    /\ tr_out = EmptyStr
    /\ tr_done = FALSE

Init ==
    /\ pc = "args"
    /\ argc \in 1..3
    /\ argJson \in (IF argc = 1 THEN {NoArg} ELSE ArgJsons)
    /\ envWebhook \in WebhookEnvs
    /\ envSecret \in SecretEnvs
    /\ clock = Epoch
    /\ cfg = ZeroConfig
    /\ notification = ZeroNotification
    /\ ts = -1
    /\ timestampStr = EmptyStr
    /\ sign = EmptyStr
    /\ payload = NoPayload
    /\ posts = 0
    /\ resp = NoResp
    /\ err = NoErr
    /\ exitCode = -1
    /\ log = <<>>
    /\ TruncIdle

Exit1_DiagnosticOnly(e) ==
    /\ err' = e
    /\ exitCode' = 0
    /\ pc' = "exit"

\* fmt.Println / fmt.Printf of the diagnostic, then os.Exit(1)
Exit1(e) ==
    /\ err' = e
    /\ exitCode' = 1
    /\ pc' = "exit"

\* main returns: exit status 0
Exit0 ==
    /\ exitCode' = 0
    /\ pc' = "exit"
    /\ UNCHANGED err

\* lines 99-104: the argument count
CheckArgs ==
    /\ pc = "args"
    /\ log' = Append(log, "args")
    /\ IF argc # 2
       THEN Exit1([stage |-> "usage", cause |-> "argc"])
       ELSE pc' = "config" /\ UNCHANGED <<err, exitCode>>
    /\ UNCHANGED <<argc, argJson, envWebhook, envSecret, clock, cfg, notification,
                   ts, timestampStr, sign, payload, posts, resp, truncVars>>

LoadConfig_ErrorIgnored ==
    /\ pc = "config"
    /\ log' = Append(log, "config")
    /\ cfg' = loadConfig(envWebhook, envSecret).cfg
    /\ pc' = "parse"
    /\ UNCHANGED <<err, exitCode>>
    /\ UNCHANGED <<argc, argJson, envWebhook, envSecret, clock, notification,
                   ts, timestampStr, sign, payload, posts, resp, truncVars>>

\* lines 106-110: the configuration
LoadConfig ==
    /\ pc = "config"
    /\ log' = Append(log, "config")
    /\ IF ~loadConfig(envWebhook, envSecret).ok
       THEN Exit1([stage |-> "config", cause |-> "webhook"]) /\ UNCHANGED cfg
       ELSE /\ cfg' = loadConfig(envWebhook, envSecret).cfg
            /\ pc' = "parse"
            /\ UNCHANGED <<err, exitCode>>
    /\ UNCHANGED <<argc, argJson, envWebhook, envSecret, clock, notification,
                   ts, timestampStr, sign, payload, posts, resp, truncVars>>

\* lines 112-117: the argument
ParseArg ==
    /\ pc = "parse"
    /\ log' = Append(log, "parse")
    /\ notification' = UnmarshalNotification(argJson).v
    /\ IF ~UnmarshalNotification(argJson).ok
       THEN Exit1([stage |-> "parse", cause |-> "json"])
       ELSE pc' = "type" /\ UNCHANGED <<err, exitCode>>
    /\ UNCHANGED <<argc, argJson, envWebhook, envSecret, clock, cfg,
                   ts, timestampStr, sign, payload, posts, resp, truncVars>>

isTurnComplete_PrefixMatch(n) ==
    /\ Len(n.Type) >= Len(TurnComplete)
    /\ SubSeq(n.Type, 1, Len(TurnComplete)) = TurnComplete

\* line 119
isTurnComplete(n) == n.Type = TurnComplete

\* lines 119-125: the event type; any other type falls off the end of main
CheckType ==
    /\ pc = "type"
    /\ log' = Append(log, "type")
    /\ IF isTurnComplete(notification)
       THEN pc' = "sign" /\ UNCHANGED <<err, exitCode>>
       ELSE Exit0
    /\ UNCHANGED <<argc, argJson, envWebhook, envSecret, clock, cfg, notification,
                   ts, timestampStr, sign, payload, posts, resp, truncVars>>

\* lines 154-172: the title and, with a secret, the timestamp and signature
Sign ==
    /\ pc = "sign"
    /\ log' = Append(log, "send")
    /\ IF cfg.Secret # EmptyStr
       THEN /\ ts' = clock
            /\ timestampStr' = FormatInt(clock)
            /\ sign' = GenSign(cfg.Secret, clock)
       ELSE UNCHANGED <<ts, timestampStr, sign>>
    /\ pc' = "card"
    /\ UNCHANGED <<argc, argJson, envWebhook, envSecret, clock, cfg, notification,
                   payload, posts, resp, err, exitCode, truncVars>>

\* lines 174-258: the card and its JSON; marshalling these types cannot fail
BuildCard ==
    /\ pc = "card"
    /\ payload' = Marshal(cardMsg(notification, timestampStr, sign, clock))
    /\ pc' = "request"
    /\ UNCHANGED <<argc, argJson, envWebhook, envSecret, clock, cfg, notification,
                   ts, timestampStr, sign, posts, resp, err, exitCode, log,
                   truncVars>>

\* lines 261-265
NewRequest ==
    /\ pc = "request"
    /\ IF NewRequestFails(cfg.WebhookURL)
       THEN Exit1([stage |-> "send", cause |-> "newrequest"])
       ELSE pc' = "do" /\ UNCHANGED <<err, exitCode>>
    /\ UNCHANGED <<argc, argJson, envWebhook, envSecret, clock, cfg, notification,
                   ts, timestampStr, sign, payload, posts, resp, log, truncVars>>

\* lines 267-277: the POST; it returns within the client's timeout
Do ==
    /\ pc = "do"
    /\ posts' = posts + 1
    /\ \E r \in Responses : resp' = r
    /\ pc' = "response"
    /\ UNCHANGED <<argc, argJson, envWebhook, envSecret, clock, cfg, notification,
                   ts, timestampStr, sign, payload, err, exitCode, log, truncVars>>

HandleResponse_RetryOnce ==
    /\ pc = "response"
    /\ IF responseError(resp).stage # "none"
       THEN IF posts < 2
            THEN pc' = "do" /\ UNCHANGED <<err, exitCode>>
            ELSE Exit1(responseError(resp))
       ELSE Exit0
    /\ UNCHANGED <<argc, argJson, envWebhook, envSecret, clock, cfg, notification,
                   ts, timestampStr, sign, payload, posts, resp, log, truncVars>>

\* lines 269-291 and 120-124: the outcome of the POST
HandleResponse ==
    /\ pc = "response"
    /\ IF responseError(resp).stage # "none"
       THEN Exit1(responseError(resp))
       ELSE Exit0
    /\ UNCHANGED <<argc, argJson, envWebhook, envSecret, clock, cfg, notification,
                   ts, timestampStr, sign, payload, posts, resp, log, truncVars>>

\* the wall clock advances while the process runs
Tick ==
    /\ pc \notin {"exit", "idle"}
    /\ clock < Epoch + MaxTicks
    /\ clock' = clock + 1
    /\ UNCHANGED <<pc, argc, argJson, envWebhook, envSecret, cfg, notification,
                   ts, timestampStr, sign, payload, posts, resp, err, exitCode, log,
                   truncVars>>

Step ==
    \/ CheckArgs
    \/ LoadConfig
    \/ ParseArg
    \/ CheckType
    \/ Sign
    \/ BuildCard
    \/ NewRequest
    \/ Do
    \/ HandleResponse

Next == Step \/ Tick

Spec == Init /\ [][Next]_vars

\* main is sequential and every call it makes returns (the POST within its timeout)
FairSpec == Spec /\ WF_vars(Step)

----------------------------------------------------------------------------
(* truncateRunes on its own: every short string over a two-letter alphabet, *)
(* one of the letters being the dot of the ellipsis, against every limit    *)

TruncAlphabet == {"a", "."}

TruncStrings == UNION { [1..k -> TruncAlphabet] : k \in 0..MaxLen }

TruncLimits == (0 - NegLimits)..MaxLimit

MainIdle ==
    /\ pc = "idle"
    /\ argc = 1
    /\ argJson = NoArg
    /\ envWebhook = EnvUnset
    /\ envSecret = EnvUnset
    /\ clock = Epoch
    /\ cfg = ZeroConfig
    /\ notification = ZeroNotification
    /\ ts = -1
    /\ timestampStr = EmptyStr
    /\ sign = EmptyStr
    /\ payload = NoPayload
    /\ posts = 0
    /\ resp = NoResp
    /\ err = NoErr
    /\ exitCode = -1
    /\ log = <<>>

InitTrunc ==
    /\ MainIdle
    /\ tr_s \in TruncStrings
    /\ tr_limit \in TruncLimits
    /\ tr_out = EmptyStr
    /\ tr_done = FALSE

Truncate ==
    /\ pc = "idle"
    /\ ~tr_done
    /\ tr_out' = truncateRunes(tr_s, tr_limit)
    /\ tr_done' = TRUE
    /\ UNCHANGED <<mainVars, tr_s, tr_limit>>

SpecTrunc == InitTrunc /\ [][Truncate]_vars

----------------------------------------------------------------------------
(* Properties *)

Done == pc = "exit"

InLog(x) == \E i \in 1..Len(log) : log[i] = x

\* an environment variable that is unset, empty or only whitespace
Blank(e) == ~e.set \/ \A i \in 1..Len(e.v) : IsSpace(e.v[i])

EndsWithEllipsis(s) == Len(s) >= 3 /\ SubSeq(s, Len(s) - 2, Len(s)) = Ellipsis

\* C7 as stated: for every s and L, if the code-point count of s is <= L the
\* result is s; otherwise, if L <= 3, the result is the first L code points, has
\* exactly L code points and has no ellipsis marker; otherwise it is the first
\* L-3 code points followed by the marker and has exactly L code points.
C7_AsStated ==
    tr_done =>
        /\ Len(tr_s) <= tr_limit => tr_out = tr_s
        /\ (Len(tr_s) > tr_limit /\ tr_limit <= 3) =>
              /\ tr_out = SubSeq(tr_s, 1, tr_limit)
              /\ Len(tr_out) = tr_limit
              /\ ~EndsWithEllipsis(tr_out)
        /\ (Len(tr_s) > tr_limit /\ tr_limit > 3) =>
              /\ tr_out = SubSeq(tr_s, 1, tr_limit - 3) \o Ellipsis
              /\ Len(tr_out) = tr_limit

\* C7 amended: for L < 0 the result is empty; for L >= 0, if the code-point
\* count of s is <= L the result is s; otherwise, if L <= 3, the result is
\* exactly the first L code points of s, nothing being appended (so it is the
\* marker only when L = 3 and s itself starts with three dots); otherwise it is
\* the first L-3 code points followed by the marker and has exactly L code points.
C7_Truncation ==
    tr_done =>
        /\ tr_limit < 0 => tr_out = EmptyStr
        /\ (tr_limit >= 0 /\ Len(tr_s) <= tr_limit) => tr_out = tr_s
        /\ (tr_limit >= 0 /\ Len(tr_s) > tr_limit /\ tr_limit <= 3) =>
              /\ Len(tr_out) = tr_limit
              /\ \A i \in 1..tr_limit : tr_out[i] = tr_s[i]
              /\ EndsWithEllipsis(tr_out) =>
                    (tr_limit = 3 /\ SubSeq(tr_s, 1, 3) = Ellipsis)
        /\ (Len(tr_s) > tr_limit /\ tr_limit > 3) =>
              /\ Len(tr_out) = tr_limit
              /\ \A i \in 1..(tr_limit - 3) : tr_out[i] = tr_s[i]
              /\ EndsWithEllipsis(tr_out)

C7_Witness ==
    /\ tr_done
    /\ tr_limit > 3
    /\ Len(tr_s) > tr_limit
    /\ tr_out = SubSeq(tr_s, 1, tr_limit - 3) \o Ellipsis

ParsedOk == InLog("parse") /\ err.stage # "parse"

\* C1: whenever the argument has been parsed and its type is anything but
\* "agent-turn-complete" (a missing type included), no POST is ever issued and
\* the run ends skipped: exit code 0, no diagnostic.
C1_OtherTypeSkipped ==
    (ParsedOk /\ notification.Type # TurnComplete) =>
        /\ posts = 0
        /\ pc \in {"type", "exit"}
        /\ Done => (exitCode = 0 /\ err.stage = "none" /\ payload = NoPayload)

C1_Witness ==
    /\ Done
    /\ argJson.kind = "object"
    /\ argJson.type = JAbsent
    /\ notification.Type = EmptyStr
    /\ exitCode = 0
    /\ posts = 0

\* C2: with the webhook variable unset, empty or only whitespace no request is
\* ever issued and the run ends with exit code 1, as a configuration error
\* whatever the one argument holds; and a configuration error has no other
\* cause, so an empty secret alone never produces one.
C2_BlankWebhookIsConfigError ==
    /\ Blank(envWebhook) =>
          /\ posts = 0
          /\ pc \in {"args", "config", "exit"}
          /\ Done => exitCode = 1
          /\ (Done /\ argc = 2) => err.stage = "config"
    /\ ~Blank(envWebhook) => err.stage # "config"

C2_Witness ==
    /\ Done
    /\ argc = 2
    /\ envWebhook = EnvSet(<<" ", "TAB">>)
    /\ argJson.kind = "object"
    /\ err.stage = "config"
    /\ exitCode = 1

MemberIntOk(j) == j.t \in {"absent", "null", "number"}

MemberStrOk(j) == j.t \in {"absent", "null", "string"}

\* the value a response member has as a Go int
MemberInt(j) == IF j.t = "number" THEN j.v ELSE 0

\* the value a response member has as a Go string
MemberStr(j) == IF j.t = "string" THEN j.v ELSE EmptyStr

\* the body is JSON that fits the response shape
Decodes(b) ==
    \/ b.kind = "null"
    \/ /\ b.kind = "object"
       /\ MemberIntOk(b.code)
       /\ MemberStrOk(b.msg)
       /\ MemberIntOk(b.StatusCode)
       /\ MemberStrOk(b.StatusMessage)

BothCodesZero(b) ==
    b.kind = "object" => (MemberInt(b.code) = 0 /\ MemberInt(b.StatusCode) = 0)

\* HTTP 200, a body read in full that decodes, and both status codes zero
GoodResponse(r) ==
    /\ r.kind = "response"
    /\ r.readOk
    /\ r.status = 200
    /\ Decodes(r.body)
    /\ BothCodesZero(r.body)

\* C3: once the POST has been sent the run ends delivered (exit 0) exactly when
\* the status is 200, the body decodes and both codes are zero; otherwise it
\* ends failed (exit 1), and a non-zero code in a decoded 200 response gives the
\* application-level diagnostic, which carries the code and the message of
\* both pairs.
C3_DeliveredIffGoodResponse ==
    (Done /\ posts >= 1) =>
        /\ exitCode = 0 <=> GoodResponse(resp)
        /\ exitCode = 0 => err.stage = "none"
        /\ exitCode # 0 => (exitCode = 1 /\ err.stage = "send")
        /\ err.cause = "feishu" <=>
              /\ resp.kind = "response"
              /\ resp.readOk
              /\ resp.status = 200
              /\ Decodes(resp.body)
              /\ ~BothCodesZero(resp.body)
        /\ err.cause = "feishu" =>
              /\ err.code = MemberInt(resp.body.code)
              /\ err.msg = MemberStr(resp.body.msg)
              /\ err.statusCode = MemberInt(resp.body.StatusCode)
              /\ err.statusMessage = MemberStr(resp.body.StatusMessage)

C3_Witness ==
    /\ Done
    /\ posts = 1
    /\ resp.kind = "response"
    /\ resp.status = 200
    /\ exitCode = 1
    /\ err.cause = "feishu"
    /\ err.code = 19021
    /\ err.msg = SignMatchFail
    /\ err.statusCode = 0

\* the run got as far as sendFeishuCard
ReachedDelivery == InLog("send")

\* C4 as stated: never more than one POST, and every run that reaches delivery
\* (configuration accepted, JSON parsed, type turn-complete) issues exactly one.
C4_AsStated ==
    /\ posts <= 1
    /\ (Done /\ ReachedDelivery) => posts = 1

HasCtl(s) == \E i \in 1..Len(s) : s[i] \in {"TAB", "LF", "DEL"}

\* C4 amended: never more than one POST; a run that reaches delivery issues
\* exactly one when the request can be built from the webhook URL, and none,
\* ending failed, when it cannot; once the POST is made no step sends again, and
\* a failed attempt leads to the failed terminal state and nowhere else.
C4_SinglePost ==
    /\ [](/\ posts <= 1
          /\ (Done /\ ReachedDelivery /\ ~HasCtl(cfg.WebhookURL)) => posts = 1
          /\ (Done /\ ReachedDelivery /\ HasCtl(cfg.WebhookURL)) =>
                (posts = 0 /\ exitCode = 1 /\ err.cause = "newrequest")
          /\ (Done /\ ~ReachedDelivery) => posts = 0)
    /\ [][/\ posts >= 1 => posts' = posts
          /\ (pc = "response" /\ ~GoodResponse(resp)) =>
                \/ pc' = "response"
                \/ (pc' = "exit" /\ exitCode' = 1 /\ err'.stage = "send")]_vars

C4_Witness ==
    /\ Done
    /\ posts = 1
    /\ resp.kind = "transportError"
    /\ exitCode = 1

\* C5: in every payload built, timestamp and sign are written together or not
\* at all: neither when the secret is unset, empty or blank, and both, each
\* non-empty, when the secret is not blank.
C5_TimestampAndSignTogether ==
    payload # NoPayload =>
        /\ ("timestamp" \in payload.keys) <=> ("sign" \in payload.keys)
        /\ Blank(envSecret) => payload.keys = {"msg_type", "card"}
        /\ ~Blank(envSecret) =>
              /\ payload.keys = {"msg_type", "card", "timestamp", "sign"}
              /\ Len(payload.timestamp) > 0
              /\ Len(payload.sign) > 0

C5_Witness ==
    /\ Done
    /\ posts = 1
    /\ envSecret = EnvSet(<<" ", "TAB">>)
    /\ payload.keys = {"msg_type", "card"}

Skipped ==
    /\ Done
    /\ err.stage = "none"
    /\ ParsedOk
    /\ notification.Type # TurnComplete
    /\ posts = 0

Delivered ==
    /\ Done
    /\ err.stage = "none"
    /\ posts = 1
    /\ GoodResponse(resp)

Failed ==
    /\ Done
    /\ err.stage \in {"usage", "config", "parse", "send"}

\* C6: every run ends, and it ends in exactly one of skipped, delivered and
\* failed; the exit code is 0 exactly when it is skipped or delivered and 1
\* when it failed, a wrong argument count, a configuration error, a parse error
\* and a delivery failure all being failures.
C6_ThreeTerminalStates ==
    /\ <>Done
    /\ [](Done =>
            /\ Skipped \/ Delivered \/ Failed
            /\ ~(Skipped /\ Delivered) /\ ~(Skipped /\ Failed) /\ ~(Delivered /\ Failed)
            /\ exitCode = 0 <=> (Skipped \/ Delivered)
            /\ exitCode = 1 <=> Failed
            /\ argc # 2 => Failed
            /\ (argc = 2 /\ Blank(envWebhook)) => Failed
            /\ (argc = 2 /\ ~Blank(envWebhook) /\ argJson.kind \in {"malformed", "array"})
                  => Failed
            /\ (posts = 1 /\ ~GoodResponse(resp)) => Failed)

C6_Witness ==
    /\ Delivered
    /\ exitCode = 0
    /\ resp.body = OkBody

RECURSIVE ParseDecimal(_)
\* the number a string of decimal digits denotes
ParseDecimal(s) ==
    IF Len(s) = 0 THEN 0
    ELSE 10 * ParseDecimal(SubSeq(s, 1, Len(s) - 1))
         + (CHOOSE d \in 0..9 : Digit(d) = s[Len(s)])

\* C8: with a secret configured the signature is
\* base64(HMAC-SHA256(key = decimal timestamp, newline, secret; message empty)),
\* the timestamp written in the payload is the decimal rendering of the one
\* clock reading ts, and the key is built from that same rendering.
C8_SignatureOverTimestampAndSecret ==
    (payload # NoPayload /\ "sign" \in payload.keys) =>
        /\ payload.sign =
              <<"base64[", "hmac-sha256[key=">> \o payload.timestamp \o <<"LF">>
              \o TrimSpace(envSecret.v) \o <<";msg=", "]", "]">>
        /\ \A i \in 1..Len(payload.timestamp) :
              payload.timestamp[i] \in {Digit(d) : d \in 0..9}
        /\ ParseDecimal(payload.timestamp) = ts
        /\ Epoch <= ts /\ ts <= clock

C8_Witness ==
    /\ Done
    /\ posts = 1
    /\ "sign" \in payload.keys
    /\ envSecret = EnvSet(<<" ", "k", "2", "LF">>)
    /\ ts < clock

\* s cut to limit code points, the last three of them the marker
Cut(s, limit) ==
    IF Len(s) <= limit THEN s
    ELSE [i \in 1..limit |-> IF i <= limit - 3 THEN s[i] ELSE "."]

TitleSource ==
    IF argJson.msgs.t = "array" /\ Len(argJson.msgs.v) > 0
    THEN argJson.msgs.v[1].v
    ELSE UnknownTask

ResultSource ==
    IF argJson.last.t = "string" /\ TrimSpace(argJson.last.v) # EmptyStr
    THEN TrimSpace(argJson.last.v)
    ELSE NoResultText

TitleOf(p) == p.card.Header.Title.content

SecondBodyOf(p) == p.card.Elements[3].text.content

\* C9: the title of every card is the prefix followed by the first input
\* message (the placeholder when there is none) cut to 30 code points, and its
\* second body block is the label followed by the trimmed final message (the
\* placeholder when that is empty) cut to 500 code points, so that this text is
\* never empty and never longer than 500 code points.
C9_TitleAndResultText ==
    payload # NoPayload =>
        /\ TitleOf(payload) = TitlePrefix \o Cut(TitleSource, 30)
        /\ Len(TitleOf(payload)) <= Len(TitlePrefix) + 30
        /\ SecondBodyOf(payload) = ResultLabel \o Cut(ResultSource, 500)
        /\ Len(SecondBodyOf(payload)) > Len(ResultLabel)
        /\ Len(SecondBodyOf(payload)) <= Len(ResultLabel) + 500

C9_Witness ==
    /\ Done
    /\ posts = 1
    /\ notification.InputMessages = <<DemoTask>>
    /\ notification.LastAssistantMessage = AllDone
    /\ TitleOf(payload) = TitlePrefix \o DemoTask
    /\ SecondBodyOf(payload) = ResultLabel \o AllDone

CheckOrder == <<"args", "config", "parse", "type", "send">>

\* C10: the checks run in the order argument count, configuration, parse,
\* type, and the first that fails ends the run; a POST is issued only with one
\* argument, a non-blank webhook URL, an argument that parsed and the
\* turn-complete type; a blank webhook URL ends the run with a configuration
\* error before the argument is parsed, whatever the argument holds.
C10_ChecksInOrder ==
    /\ Len(log) <= Len(CheckOrder)
    /\ log = SubSeq(CheckOrder, 1, Len(log))
    /\ posts >= 1 =>
          /\ argc = 2
          /\ ~Blank(envWebhook)
          /\ argJson.kind \in {"object", "null"}
          /\ UnmarshalNotification(argJson).ok
          /\ UnmarshalNotification(argJson).v.Type = TurnComplete
    /\ (Done /\ argc # 2) => (err.stage = "usage" /\ Len(log) = 1)
    /\ (Done /\ argc = 2 /\ Blank(envWebhook)) =>
          (err.stage = "config" /\ Len(log) = 2 /\ notification = ZeroNotification)
    /\ (Done /\ argc = 2 /\ ~Blank(envWebhook) /\ ~UnmarshalNotification(argJson).ok) =>
          (err.stage = "parse" /\ Len(log) = 3)
    /\ (Done /\ argc = 2 /\ ~Blank(envWebhook) /\ UnmarshalNotification(argJson).ok
        /\ UnmarshalNotification(argJson).v.Type # TurnComplete) =>
          (err.stage = "none" /\ Len(log) = 4)

C10_Witness ==
    /\ Done
    /\ argc = 2
    /\ envWebhook = EnvUnset
    /\ argJson.kind = "malformed"
    /\ err.stage = "config"
    /\ log = <<"args", "config">>

====
